---- MODULE Spec2Model ----
(***************************************************************************)
(* Model of braintree/configuration.py: the class Configuration, its       *)
(* process-wide (class-level) attributes, the per-call Configuration       *)
(* instances ("snapshots") and the HTTP strategy dispatch.                 *)
(*                                                                         *)
(* Python values: a string is Str(s), None is None.  The class attributes  *)
(* are a function from attribute names to values, whose DOMAIN is the set  *)
(* of attributes that exist, so that reading an attribute that was never   *)
(* assigned raises AttributeError as it does in Python.                    *)
(***************************************************************************)
EXTENDS Naturals, Sequences, FiniteSets, TLC

VARIABLES
    cls,          \* attributes of the class Configuration (name -> value)
    environ,      \* os.environ restricted to PYTHON_HTTP_STRATEGY
    version_info, \* sys.version_info[0..1]
    snapshots,    \* the Configuration instances the caller still holds
    last,         \* history: the last call, what it raised and returned
    cfg,          \* history: arguments of the most recent configure call
    origin,       \* history: cfg and environ when snapshots[i] was created
    since,        \* history: instantiate calls since the last configure
    pc,           \* concurrent callers: position of each caller
    loc,          \* concurrent callers: local values of each caller
    overlap       \* history: two callers were in progress at the same time

vars == <<cls, environ, version_info, snapshots, last, cfg, origin, since,
          pc, loc, overlap>>

concvars == <<pc, loc, overlap>>
seqvars == <<snapshots, last, cfg, origin, since>>

\* ------------------------------------------------------------------ bounds
MaxSnapshots == 1

\* ------------------------------------------------------------ Python values
None == [t |-> "NoneType"]
Str(s) == [t |-> "str", v |-> s]

NoAttrs == [a \in {} |-> None]
hasattr(c, n) == n \in DOMAIN c
setattr(c, n, v) == (n :> v) @@ c

Returned(v) == [raised |-> "", ret |-> v]
Raised(e) == [raised |-> e, ret |-> None]

\* ----------------------------------------------------------------- inputs
Sandbox == [protocol |-> "https://", server_and_port |-> "sandbox.example.com:443"]
Production == [protocol |-> "https://", server_and_port |-> "www.example.com:443"]

\* The argument tuples configure is called with.
ConfigureArgs ==
    { [environment |-> Sandbox, merchant_id |-> Str("m1"),
       public_key |-> Str("pub1"), private_key |-> Str("priv1"), use_once |-> u]
        : u \in BOOLEAN }
    \cup
    { [environment |-> Production, merchant_id |-> Str("m2"),
       public_key |-> Str("pub2"), private_key |-> Str("priv2"), use_once |-> u]
        : u \in BOOLEAN }

\* Values of os.environ["PYTHON_HTTP_STRATEGY"].
StrategyNames == {"httplib", "pycurl", "requests", "invalid-name"}
NoEnviron == [k \in {} |-> ""]

\* Values of sys.version_info[0], sys.version_info[1].
Versions == {<<2, 5>>, <<2, 7>>, <<3, 5>>}

\* ------------------------------------------------------- HTTP strategies
HttplibStrategy(config_environment) ==
    [class |-> "HttplibStrategy", environment |-> config_environment]
PycurlStrategy(config_environment) ==
    [class |-> "PycurlStrategy", environment |-> config_environment]
RequestsStrategy(config_environment) ==
    [class |-> "RequestsStrategy", environment |-> config_environment]

\* Configuration.__http_strategy_from_environment
http_strategy_from_environment(env, environment) ==
    LET strategy_name == env["PYTHON_HTTP_STRATEGY"]
    IN  IF strategy_name = "httplib" THEN Returned(HttplibStrategy(environment))
        ELSE IF strategy_name = "pycurl" THEN Returned(PycurlStrategy(environment))
        ELSE IF strategy_name = "requests" THEN Returned(RequestsStrategy(environment))
        ELSE Raised("ValueError")

\* Mutant: the runtime-version rule is applied before the override.
determine_http_strategy_version_first(env, ver, environment) ==
    IF ver[1] = 2 /\ ver[2] = 5
    THEN Returned(PycurlStrategy(environment))
    ELSE IF "PYTHON_HTTP_STRATEGY" \in DOMAIN env
         THEN http_strategy_from_environment(env, environment)
         ELSE Returned(RequestsStrategy(environment))

\* Configuration.__determine_http_strategy
determine_http_strategy(env, ver, environment) ==
    IF "PYTHON_HTTP_STRATEGY" \in DOMAIN env
    THEN http_strategy_from_environment(env, environment)
    ELSE IF ver[1] = 2 /\ ver[2] = 5
         THEN Returned(PycurlStrategy(environment))
         ELSE Returned(RequestsStrategy(environment))

\* Mutant: __init__ stores the two keys in each other's field.
init_swapped_keys(env, ver, environment, merchant_id, public_key, private_key) ==
    LET strategy == determine_http_strategy(env, ver, environment)
    IN  IF strategy.raised # ""
        THEN Raised(strategy.raised)
        ELSE Returned([environment |-> environment,
                       merchant_id |-> merchant_id,
                       public_key |-> private_key,
                       private_key |-> public_key,
                       _http_strategy |-> strategy.ret])

\* Configuration.__init__
__init__(env, ver, environment, merchant_id, public_key, private_key) ==
    LET strategy == determine_http_strategy(env, ver, environment)
    IN  IF strategy.raised # ""
        THEN Raised(strategy.raised)
        ELSE Returned([environment |-> environment,
                       merchant_id |-> merchant_id,
                       public_key |-> public_key,
                       private_key |-> private_key,
                       _http_strategy |-> strategy.ret])

\* ------------------------------------------------------- static methods
\* Mutant: line 51 stores the public key as the merchant id.
configure_store_wrong_field(c, line, a) ==
    CASE line = "L50" -> setattr(c, "environment", a.environment)
      [] line = "L51" -> setattr(c, "merchant_id", a.public_key)
      [] line = "L52" -> setattr(c, "public_key", a.public_key)
      [] line = "L53" -> setattr(c, "private_key", a.private_key)
      [] line = "L54" -> setattr(c, "use_unsafe_ssl", FALSE)
      [] line = "L55" -> setattr(c, "use_once", a.use_once)

\* One assignment of Configuration.configure, by its source line.
configure_store(c, line, a) ==
    CASE line = "L50" -> setattr(c, "environment", a.environment)
      [] line = "L51" -> setattr(c, "merchant_id", a.merchant_id)
      [] line = "L52" -> setattr(c, "public_key", a.public_key)
      [] line = "L53" -> setattr(c, "private_key", a.private_key)
      [] line = "L54" -> setattr(c, "use_unsafe_ssl", FALSE)
      [] line = "L55" -> setattr(c, "use_once", a.use_once)

\* Mutant: configure without line 54, so use_unsafe_ssl keeps its value
\* (False when it was never assigned).
configure_keeps_ssl(c, a) ==
    LET c1 == configure_store(c, "L50", a)
        c2 == configure_store(c1, "L51", a)
        c3 == configure_store(c2, "L52", a)
        c4 == configure_store(c3, "L53", a)
        c5 == IF hasattr(c4, "use_unsafe_ssl") THEN c4
              ELSE configure_store(c4, "L54", a)
    IN  configure_store(c5, "L55", a)

\* Configuration.configure: the class attributes after the call.
configure(c, a) ==
    LET c1 == configure_store(c, "L50", a)
        c2 == configure_store(c1, "L51", a)
        c3 == configure_store(c2, "L52", a)
        c4 == configure_store(c3, "L53", a)
        c5 == configure_store(c4, "L54", a)
    IN  configure_store(c5, "L55", a)

\* One assignment of the reset of the static authorization data in
\* Configuration.instantiate, by its source line.
reset_store(c, line) ==
    CASE line = "L72" -> setattr(c, "merchant_id", None)
      [] line = "L73" -> setattr(c, "public_key", None)
      [] line = "L74" -> setattr(c, "private_key", None)

\* Mutant: the reset leaves the private key in place.
reset_static_partial(c) ==
    IF c.use_once
    THEN reset_store(reset_store(c, "L72"), "L73")
    ELSE c

\* The reset of the static authorization data in Configuration.instantiate.
reset_static(c) ==
    IF c.use_once
    THEN reset_store(reset_store(reset_store(c, "L72"), "L73"), "L74")
    ELSE c

\* Mutant: a class attribute that was never assigned reads as None.
instantiate_unchecked(c, env, ver) ==
    LET get(n) == IF hasattr(c, n) THEN c[n] ELSE None
        config == __init__(env, ver, get("environment"), get("merchant_id"),
                           get("public_key"), get("private_key"))
    IN  IF config.raised # ""
        THEN [cls |-> c, out |-> config]
        ELSE IF ~hasattr(c, "use_once")
        THEN [cls |-> c, out |-> config]
        ELSE [cls |-> reset_static(c), out |-> config]

\* Mutant: the static authorization data is reset before the snapshot is
\* constructed, so a failing construction has consumed it.
instantiate_reset_first(c, env, ver) ==
    IF \E n \in {"environment", "merchant_id", "public_key", "private_key"} :
            ~hasattr(c, n)
    THEN [cls |-> c, out |-> Raised("AttributeError")]
    ELSE IF ~hasattr(c, "use_once")
    THEN [cls |-> c, out |-> Raised("AttributeError")]
    ELSE [cls |-> reset_static(c),
          out |-> __init__(env, ver, c.environment, c.merchant_id,
                           c.public_key, c.private_key)]

\* Configuration.instantiate: what it raises or returns, and the class
\* attributes after the call.
instantiate(c, env, ver) ==
    IF \E n \in {"environment", "merchant_id", "public_key", "private_key"} :
            ~hasattr(c, n)
    THEN [cls |-> c, out |-> Raised("AttributeError")]
    ELSE LET config == __init__(env, ver, c.environment, c.merchant_id,
                                c.public_key, c.private_key)
         IN  IF config.raised # ""
             THEN [cls |-> c, out |-> config]
             ELSE IF ~hasattr(c, "use_once")
             THEN [cls |-> c, out |-> Raised("AttributeError")]
             ELSE [cls |-> reset_static(c), out |-> config]

\* Configuration.api_version
api_version == Str("3")

\* ----------------------------------------------------- instance methods
\* Mutant: the merchant id is formatted with str(), so None becomes "None".
base_merchant_path_str(self) ==
    IF self.merchant_id.t = "str"
    THEN Returned(Str("/merchants/" \o self.merchant_id.v))
    ELSE Returned(Str("/merchants/" \o "None"))

\* Configuration.base_merchant_path
base_merchant_path(self) ==
    IF self.merchant_id.t = "str"
    THEN Returned(Str("/merchants/" \o self.merchant_id.v))
    ELSE Raised("TypeError")

\* Configuration.base_merchant_url
base_merchant_url(self) ==
    LET path == base_merchant_path(self)
    IN  IF path.raised # ""
        THEN path
        ELSE Returned(Str(self.environment.protocol
                          \o self.environment.server_and_port \o path.ret.v))

\* Mutant: the strategy resolved at construction is returned whatever
\* use_unsafe_ssl is.
http_strategy_cached(c, self) == Returned(self._http_strategy)

\* Configuration.http_strategy
http_strategy(c, self) ==
    IF c.use_unsafe_ssl
    THEN Returned(HttplibStrategy(self.environment))
    ELSE Returned(self._http_strategy)

\* Mutant: the credentials are cleared whatever use_once is.
request_complete_always(c, self) ==
    [self EXCEPT !.merchant_id = None, !.public_key = None, !.private_key = None]

\* Configuration._request_complete: the instance after the call.
_request_complete(c, self) ==
    IF c.use_once
    THEN [self EXCEPT !.merchant_id = None, !.public_key = None,
                      !.private_key = None]
    ELSE self

\* ------------------------------------------------------------ history
\* The last call: its name, the snapshot it was called on (0 for a static
\* call), what it raised or returned, and whether use_unsafe_ssl was true
\* when it was made.
NoCall == [op |-> "", self |-> 0, raised |-> "", ret |-> None, unsafe |-> FALSE]
Call(op, self, out) ==
    [op |-> op, self |-> self, raised |-> out.raised, ret |-> out.ret,
     unsafe |-> (hasattr(cls, "use_unsafe_ssl") /\ cls.use_unsafe_ssl)]

NoCfg == [called |-> FALSE]

\* since: "fresh" (no instantiate since configure), "failed" (only failed
\* ones), "first" (one has returned, none failed before it), "retried" (one
\* has returned, after failed ones), "later" (more than one has returned).
AfterReturn(s) ==
    IF s = "fresh" THEN "first" ELSE IF s = "failed" THEN "retried" ELSE "later"
AfterRaise(s) == IF s = "fresh" THEN "failed" ELSE s

\* The caller keeps the MaxSnapshots most recent snapshots.
Keep(q) == IF Len(q) > MaxSnapshots THEN Tail(q) ELSE q

Override(name) == [k \in {"PYTHON_HTTP_STRATEGY"} |-> name]

\* The inputs of Spec, which follows the credentials: every configure
\* argument, an override that is valid or invalid, a recent runtime.
Environs == {Override("requests"), Override("invalid-name")}
RecentVersions == {<<2, 7>>}

\* The inputs of SpecStrategy, which follows the strategy resolution: every
\* override and runtime, configure without use_once.
StrategyEnvirons == {NoEnviron} \cup {Override(s) : s \in StrategyNames}
StrategyArgs == {a \in ConfigureArgs : ~a.use_once}

\* --------------------------------------------------------------- Init
Start(E, V) ==
    /\ cls = NoAttrs
    /\ environ \in E
    /\ version_info \in V
    /\ snapshots = <<>>
    /\ last = NoCall
    /\ cfg = NoCfg
    /\ origin = <<>>
    /\ since = "fresh"
    /\ loc = <<NoAttrs, NoAttrs>>
    /\ overlap = FALSE

Init == Start(Environs, RecentVersions) /\ pc = <<"idle", "idle">>
InitStrategy == Start(StrategyEnvirons, Versions) /\ pc = <<"idle", "idle">>

\* ------------------------------------------------------------ actions
\* Configuration.configure(environment, merchant_id, public_key,
\*                         private_key, use_once)
Configure(A) ==
    \E a \in A :
        /\ cls' = configure(cls, a)
        /\ last' = Call("configure", 0, Returned(None))
        /\ cfg' = [called |-> TRUE, args |-> a]
        /\ since' = "fresh"
        /\ UNCHANGED <<environ, version_info, snapshots, origin>>
        /\ UNCHANGED concvars

\* Configuration.use_unsafe_ssl = True (or False), assigned by the user.
SetUseUnsafeSsl ==
    \E b \in BOOLEAN :
        /\ cls' = setattr(cls, "use_unsafe_ssl", b)
        /\ last' = Call("use_unsafe_ssl", 0, Returned(None))
        /\ UNCHANGED <<environ, version_info, snapshots, cfg, origin, since>>
        /\ UNCHANGED concvars

\* os.environ["PYTHON_HTTP_STRATEGY"] is set or deleted between calls.
SetEnviron(E) ==
    /\ environ' \in E
    /\ environ' # environ
    /\ last' = Call("environ", 0, Returned(None))
    /\ UNCHANGED <<cls, version_info, snapshots, cfg, origin, since>>
    /\ UNCHANGED concvars

\* The caller's view after Configuration.instantiate() ended with r.
Instantiated(op, r) ==
    IF r.out.raised = ""
    THEN [snapshots |-> Keep(Append(snapshots, r.out.ret)),
          origin |-> Keep(Append(origin, [cfg |-> cfg, environ |-> environ])),
          last |-> Call(op, Len(Keep(Append(snapshots, r.out.ret))), r.out),
          since |-> AfterReturn(since)]
    ELSE [snapshots |-> snapshots,
          origin |-> origin,
          last |-> Call(op, 0, r.out),
          since |-> AfterRaise(since)]

\* Configuration.instantiate()
Instantiate ==
    LET r == instantiate(cls, environ, version_info)
        h == Instantiated("instantiate", r)
    IN  /\ cls' = r.cls
        /\ snapshots' = h.snapshots
        /\ origin' = h.origin
        /\ last' = h.last
        /\ since' = h.since
        /\ UNCHANGED <<environ, version_info, cfg>>
        /\ UNCHANGED concvars

\* Configuration.gateway(): BraintreeGateway(Configuration.instantiate())
Gateway ==
    LET r == instantiate(cls, environ, version_info)
        h == Instantiated("gateway", r)
    IN  /\ cls' = r.cls
        /\ snapshots' = h.snapshots
        /\ origin' = h.origin
        /\ last' = h.last
        /\ since' = h.since
        /\ UNCHANGED <<environ, version_info, cfg>>
        /\ UNCHANGED concvars

\* snapshots[i].base_merchant_path()
BaseMerchantPath ==
    \E i \in 1..Len(snapshots) :
        /\ last' = Call("base_merchant_path", i, base_merchant_path(snapshots[i]))
        /\ UNCHANGED <<cls, environ, version_info, snapshots, cfg, origin, since>>
        /\ UNCHANGED concvars

\* snapshots[i].base_merchant_url()
BaseMerchantUrl ==
    \E i \in 1..Len(snapshots) :
        /\ last' = Call("base_merchant_url", i, base_merchant_url(snapshots[i]))
        /\ UNCHANGED <<cls, environ, version_info, snapshots, cfg, origin, since>>
        /\ UNCHANGED concvars

\* snapshots[i].http_strategy()
HttpStrategy ==
    \E i \in 1..Len(snapshots) :
        /\ last' = Call("http_strategy", i, http_strategy(cls, snapshots[i]))
        /\ UNCHANGED <<cls, environ, version_info, snapshots, cfg, origin, since>>
        /\ UNCHANGED concvars

\* snapshots[i]._request_complete()
RequestComplete ==
    \E i \in 1..Len(snapshots) :
        /\ snapshots' = [snapshots EXCEPT ![i] = _request_complete(cls, @)]
        /\ last' = Call("_request_complete", i, Returned(None))
        /\ UNCHANGED <<cls, environ, version_info, cfg, origin, since>>
        /\ UNCHANGED concvars

Calls ==
    \/ SetUseUnsafeSsl
    \/ Instantiate
    \/ Gateway
    \/ BaseMerchantPath
    \/ BaseMerchantUrl
    \/ HttpStrategy
    \/ RequestComplete

Next ==
    \/ Configure(ConfigureArgs)
    \/ SetEnviron(Environs)
    \/ Calls

Spec == Init /\ [][Next]_vars

NextStrategy ==
    \/ Configure(StrategyArgs)
    \/ SetEnviron(StrategyEnvirons)
    \/ Calls

SpecStrategy == InitStrategy /\ [][NextStrategy]_vars

\* ------------------------------------------------- concurrent callers
\* Two callers, each running configure(..., use_once=True) and then
\* instantiate() on the shared class attributes with no lock.  A step is one
\* attribute load or store, which is what the interpreter runs atomically.
Callers == {1, 2}
Other(t) == IF t = 1 THEN 2 ELSE 1
CallerArgs(t) ==
    CHOOSE a \in ConfigureArgs :
        /\ a.use_once
        /\ a.environment = (IF t = 1 THEN Sandbox ELSE Production)

Running(t) == pc[t] \notin {"L50", "done", "raised"}

\* The step of caller t that moves it to position p with locals l.
Goto(t, p, l) ==
    /\ pc' = [pc EXCEPT ![t] = p]
    /\ loc' = [loc EXCEPT ![t] = l]
    /\ overlap' = (overlap \/ Running(Other(t)))
    /\ UNCHANGED <<environ, version_info>>
    /\ UNCHANGED seqvars

NextLine(line) ==
    CASE line = "L50" -> "L51" [] line = "L51" -> "L52" [] line = "L52" -> "L53"
      [] line = "L53" -> "L54" [] line = "L54" -> "L55" [] line = "L55" -> "L64"
      [] line = "L64" -> "L65" [] line = "L65" -> "L66" [] line = "L66" -> "L67"
      [] line = "L67" -> "L63" [] line = "L63" -> "L71"
      [] line = "L72" -> "L73" [] line = "L73" -> "L74" [] line = "L74" -> "L76"

\* The class attribute Configuration.instantiate reads at a source line.
LoadedAt(line) ==
    CASE line = "L64" -> "environment" [] line = "L65" -> "merchant_id"
      [] line = "L66" -> "public_key"  [] line = "L67" -> "private_key"

\* Lines 50-55: one assignment of configure.
ConfigureStore(t) ==
    /\ pc[t] \in {"L50", "L51", "L52", "L53", "L54", "L55"}
    /\ cls' = configure_store(cls, pc[t], CallerArgs(t))
    /\ Goto(t, NextLine(pc[t]), loc[t])

\* Lines 64-67: instantiate evaluates one argument of Configuration(...).
InstantiateLoad(t) ==
    /\ pc[t] \in {"L64", "L65", "L66", "L67"}
    /\ cls' = cls
    /\ IF hasattr(cls, LoadedAt(pc[t]))
       THEN Goto(t, NextLine(pc[t]),
                 setattr(loc[t], LoadedAt(pc[t]), cls[LoadedAt(pc[t])]))
       ELSE Goto(t, "raised", loc[t])

\* Line 63: the call Configuration(...), that is __init__.
InstantiateConstruct(t) ==
    LET config == __init__(environ, version_info, loc[t].environment,
                           loc[t].merchant_id, loc[t].public_key,
                           loc[t].private_key)
    IN  /\ pc[t] = "L63"
        /\ cls' = cls
        /\ IF config.raised = ""
           THEN Goto(t, NextLine(pc[t]), setattr(loc[t], "config", config.ret))
           ELSE Goto(t, "raised", loc[t])

\* Line 71: if Configuration.use_once.
InstantiateTest(t) ==
    /\ pc[t] = "L71"
    /\ cls' = cls
    /\ IF ~hasattr(cls, "use_once") THEN Goto(t, "raised", loc[t])
       ELSE IF cls.use_once THEN Goto(t, "L72", loc[t])
       ELSE Goto(t, "L76", loc[t])

\* Lines 72-74: one assignment of the reset.
InstantiateReset(t) ==
    /\ pc[t] \in {"L72", "L73", "L74"}
    /\ cls' = reset_store(cls, pc[t])
    /\ Goto(t, NextLine(pc[t]), loc[t])

\* Line 76: return config.
InstantiateReturn(t) ==
    /\ pc[t] = "L76"
    /\ cls' = cls
    /\ Goto(t, "done", loc[t])

InitConc ==
    /\ Start(Environs, RecentVersions)
    /\ pc = <<"L50", "L50">>

NextConc ==
    \E t \in Callers :
        \/ ConfigureStore(t)
        \/ InstantiateLoad(t)
        \/ InstantiateConstruct(t)
        \/ InstantiateTest(t)
        \/ InstantiateReset(t)
        \/ InstantiateReturn(t)

SpecConc == InitConc /\ [][NextConc]_vars

\* ---------------------------------------------------------------- claims
Creds(x) == <<x.merchant_id, x.public_key, x.private_key>>
Cleared == <<None, None, None>>
Instantiating == last.op \in {"instantiate", "gateway"}
\* The last call was an instantiate() or gateway() that returned last.ret.
Made == Instantiating /\ last.raised = ""

\* C1: an instantiate() that returns, when it is the first one to return since
\* configure or when configure was called with use_once false, returns a
\* snapshot whose environment, merchant_id, public_key and private_key are
\* the configure arguments; with use_once false instantiate() leaves the
\* class attributes equal to those arguments.
C1_ConfigureThenInstantiate ==
    /\ (Made /\ cfg.called
             /\ (since \in {"first", "retried"} \/ ~cfg.args.use_once))
         => /\ last.ret.environment = cfg.args.environment
            /\ Creds(last.ret) = Creds(cfg.args)
    /\ (Instantiating /\ cfg.called /\ ~cfg.args.use_once)
         => /\ cls.environment = cfg.args.environment
            /\ Creds(cls) = Creds(cfg.args)
            /\ cls.use_once = FALSE

C1_Witness ==
    /\ Made /\ cfg.called /\ ~cfg.args.use_once /\ since = "later"
    /\ last.ret.environment = Production
    /\ Creds(last.ret) = <<Str("m2"), Str("pub2"), Str("priv2")>>

\* C2: after configure with use_once true, once an instantiate() or gateway()
\* has returned the class attributes merchant_id, public_key and private_key
\* are None, and every further instantiate() before the next configure
\* returns a snapshot whose three credential fields are None.
C2_UseOnceConsumes ==
    /\ (cfg.called /\ cfg.args.use_once /\ since \in {"first", "retried", "later"})
         => Creds(cls) = Cleared
    /\ (Made /\ cfg.called /\ cfg.args.use_once /\ since = "later")
         => Creds(last.ret) = Cleared

C2_Witness ==
    /\ Made /\ cfg.called /\ cfg.args.use_once /\ since = "later"
    /\ Creds(last.ret) = Cleared
    /\ Creds(cls) = Cleared

\* C3: while configure has never been called, instantiate() and gateway()
\* raise (AttributeError) and no snapshot exists; every snapshot was created
\* after a configure call.
C3_NotConfiguredFails ==
    /\ (Instantiating /\ ~cfg.called)
         => (last.raised = "AttributeError" /\ last.self = 0)
    /\ ~cfg.called => snapshots = <<>>
    /\ \A i \in 1..Len(snapshots) : origin[i].cfg.called

C3_Witness ==
    /\ last.op = "gateway" /\ ~cfg.called
    /\ last.raised = "AttributeError"
    /\ hasattr(cls, "use_unsafe_ssl") /\ cls.use_unsafe_ssl
    /\ snapshots = <<>>

\* C4: an http_strategy() call made while use_unsafe_ssl is true returns the
\* HttplibStrategy, whatever strategy the snapshot resolved at construction.
C4_UnsafeSslWins ==
    (last.op = "http_strategy" /\ last.unsafe)
        => /\ last.raised = ""
           /\ last.ret = HttplibStrategy(snapshots[last.self].environment)

C4_Witness ==
    /\ last.op = "http_strategy" /\ last.unsafe
    /\ version_info = <<2, 7>>
    /\ origin[last.self].environ = Override("pycurl")
    /\ snapshots[last.self]._http_strategy.class = "PycurlStrategy"
    /\ last.ret.class = "HttplibStrategy"

\* The strategy class the override and the runtime version select, as the
\* claim C5 states it ("ValueError" where construction fails).
SelectedClass(env, ver) ==
    IF env # NoEnviron
    THEN CASE env = Override("httplib") -> "HttplibStrategy"
           [] env = Override("pycurl") -> "PycurlStrategy"
           [] env = Override("requests") -> "RequestsStrategy"
           [] OTHER -> "ValueError"
    ELSE IF ver = <<2, 5>> THEN "PycurlStrategy" ELSE "RequestsStrategy"

C6_Original ==
    (last.op = "base_merchant_path")
        => /\ last.raised = ""
           /\ last.ret = Str("/merchants/"
                             \o origin[last.self].cfg.args.merchant_id.v)

\* C6 amended: a snapshot's merchant_id is the merchant id configured when
\* it was instantiated or None (instantiated after a use_once consumption,
\* or cleared by _request_complete); base_merchant_path() returns
\* "/merchants/" + that merchant id in the first case and raises TypeError
\* in the second, and base_merchant_url() returns environment.protocol +
\* environment.server_and_port + that path, or raises likewise.
C6_BaseMerchantPath ==
    /\ \A i \in 1..Len(snapshots) :
          /\ snapshots[i].merchant_id \in {origin[i].cfg.args.merchant_id, None}
          /\ snapshots[i].environment = origin[i].cfg.args.environment
    /\ (last.op \in {"base_merchant_path", "base_merchant_url"})
         => LET self == snapshots[last.self]
                args == origin[last.self].cfg.args
                path == "/merchants/" \o args.merchant_id.v
            IN  IF self.merchant_id = None
                THEN last.raised = "TypeError"
                ELSE /\ last.raised = ""
                     /\ last.op = "base_merchant_path" => last.ret = Str(path)
                     /\ last.op = "base_merchant_url" =>
                          last.ret = Str(args.environment.protocol
                                         \o args.environment.server_and_port
                                         \o path)

C6_Witness ==
    /\ last.op = "base_merchant_url" /\ last.raised = ""
    /\ last.ret = Str("https://sandbox.example.com:443/merchants/m1")
    /\ cls.environment = Production
    /\ cls.merchant_id = Str("m2")

C8_NoOverlapOwnCredentials ==
    \A t \in Callers :
        (pc[t] = "done" /\ ~overlap)
            => /\ loc[t].config.environment = CallerArgs(t).environment
               /\ Creds(loc[t].config) = Creds(CallerArgs(t))

C8_Witness ==
    /\ overlap
    /\ pc = <<"done", "done">>
    /\ Creds(loc[1].config) = Creds(CallerArgs(2))
    /\ Creds(loc[2].config) = Cleared

\* C9: right after configure the class attributes are exactly the arguments
\* with use_unsafe_ssl false, whatever they were before, and http_strategy()
\* on every snapshot returns the strategy resolved at its construction.
C9_ConfigureOverwrites ==
    (last.op = "configure")
        => /\ cls = [environment |-> cfg.args.environment,
                     merchant_id |-> cfg.args.merchant_id,
                     public_key |-> cfg.args.public_key,
                     private_key |-> cfg.args.private_key,
                     use_unsafe_ssl |-> FALSE,
                     use_once |-> cfg.args.use_once]
           /\ \A i \in 1..Len(snapshots) :
                 http_strategy(cls, snapshots[i])
                     = Returned(snapshots[i]._http_strategy)

C9_Witness ==
    /\ last.op = "configure" /\ last.unsafe
    /\ snapshots # <<>>
    /\ snapshots[1]._http_strategy.class = "RequestsStrategy"
    /\ snapshots[1].environment # cls.environment
    /\ ~cls.use_unsafe_ssl

\* C10: an instantiate() that raises ValueError for the override leaves the
\* class attributes and the snapshots as they were, also with use_once true,
\* and the first instantiate() that returns after such failures, with no
\* configure in between, returns the configured credentials.
C10_FailedInstantiateKeepsState ==
    [][ /\ (last'.op \in {"instantiate", "gateway"} /\ last'.raised = "ValueError")
            => (cls' = cls /\ snapshots' = snapshots)
        /\ (since = "failed" /\ cfg.called
                /\ last'.op \in {"instantiate", "gateway"} /\ last'.raised = "")
            => /\ last'.ret.environment = cfg.args.environment
               /\ Creds(last'.ret) = Creds(cfg.args) ]_vars

C10_Witness ==
    /\ Made /\ since = "retried"
    /\ cfg.called /\ cfg.args.use_once
    /\ Creds(last.ret) = Creds(cfg.args)
    /\ Creds(cls) = Cleared

====
